---- MODULE Spec2Model ----
(***************************************************************************)
(* CyberScanX port scanner: the probe state machine (scanPort), the        *)
(* sliding-window scheduler (runScan) and the scan registry                *)
(* (ScannerService.startScan / abortScan / isActive, with the target      *)
(* sanitation and validation of startScan).                                *)
(*                                                                         *)
(* One scan is followed from its start to its end.  Node runs every        *)
(* socket event, timer and promise reaction to completion on one thread,   *)
(* and the reaction of scanPort's promise is a microtask that runs right   *)
(* after the event that resolved it: an event of a probe together with the *)
(* completion handler it triggers is therefore one atomic step.            *)
(***************************************************************************)
EXTENDS Integers, Sequences, FiniteSets, TLC

Min(a, b) == IF a <= b THEN a ELSE b
Max(a, b) == IF a >= b THEN a ELSE b

\* ------------------------------------------------------------- bounds
\* longest port list handed to a scan
MaxPorts == 2
\* largest window size handed to runScan when it is called directly
MaxConcurrency == 2

\* ports offered to a scan, one more with every port a list may hold:
\* a generic one, an HTTP one, the TLS one, one that greets unasked
SamplePorts == <<22, 80, 443, 21, 8080>>
PortUniverse == {SamplePorts[k] : k \in 1..Min(MaxPorts, Len(SamplePorts))}
\* ports offered to the scans that exercise the probe: one of each payload
ProbePorts == {22, 80, 443}
\* longest port list of the scans that exercise the probe
MaxProbePorts == 1
\* longest port list of the scans whose callbacks throw
MaxThrowPorts == 2
\* longest list of open ports handed to analyze
MaxOpen == 3
\* scan ids a scan is started under, and ids abortScan is called with
ScanIds == {"s1"}
AbortIds == {"s1", "s2"}
\* requested concurrency values handed to startScan
ConcurrencyRequests == {1}
\* requested timeouts (ms): below, at and above the banner window
TimeoutRequests == {300, 400, 1000}
\* sizes (bytes) of the first data chunk a service sends
ChunkLens == {1, 300}

\* ------------------------------------------------- program constants
BANNER_WINDOW == 400
BANNER_MAX == 256
MIN_CONCURRENCY == 10
MAX_CONCURRENCY == 500
LARGE_SCAN == 500
LARGE_TIMEOUT == 400
SMALL_TIMEOUT == 800
MAX_TARGET_LEN == 255
DEFAULT_CONCURRENCY == 150
DEFAULT_TIMEOUT == 400
SCORE_CAP == 100
CRITICAL_ABOVE == 70
WARNING_ABOVE == 40
DEFAULT_SCORE == 5

NoId == "none"

VARIABLES
    started,      \* runScan has been entered for the scan
    entry,        \* "service" (ScannerService.startScan) or "direct" (runScan)
    scanId,       \* config.scanId of a service scan
    ports,        \* options.ports
    concurrency,  \* options.concurrency as runScan receives it
    timeout,      \* options.timeout as runScan receives it
    aborted,      \* signal.aborted
    index,        \* runScan: launch cursor
    scanned,      \* runScan: probes whose completion handler has run
    results,      \* runScan: accepted PortResults, in completion order
    probes,       \* scanPort closures, one per launched port position
    activeScans,  \* keys of the registry map
    trace,        \* callbacks invoked so far (and the abort), in order
    thrown,       \* a caller-supplied callback has thrown
    invalidTarget, \* scan ids whose startScan call threw "Invalid target"
    startReturn,  \* the last startScan call: its input, whether it threw,
                  \* and the target it returned
    peer,         \* a second scan, started under an id of its own
    holder,       \* the scan that made the last activeScans.set call
    conn,         \* one client connection of the server
    insight,      \* the last analyzePort call and its PortInsight
    report,       \* the last analyze call and its SecurityReport
    previous      \* an earlier analyze call the caller has kept

\* what the callers of AIEngine hold
analysis == <<insight, report, previous>>

vars == <<started, entry, scanId, ports, concurrency, timeout, aborted, index,
          scanned, results, probes, activeScans, trace, thrown, invalidTarget,
          startReturn, peer, holder, conn, analysis>>

config == <<started, entry, scanId, ports, concurrency, timeout, invalidTarget,
            startReturn, peer, holder, conn, analysis>>

\* ----------------------------------------------------- ScanOptions
\* what the scheduler closes over: the options of the running scan
Opts == [entry |-> entry, scanId |-> scanId, ports |-> ports,
         concurrency |-> concurrency, timeout |-> timeout]

\* the mutable state a completion handler reads and writes; raised: an
\* exception thrown by a callback is propagating out of the running code
Sched == [aborted |-> aborted, index |-> index, scanned |-> scanned,
          results |-> results, probes |-> probes,
          activeScans |-> activeScans, trace |-> trace, raised |-> FALSE]

Commit(S) ==
    /\ aborted' = S.aborted
    /\ index' = S.index
    /\ scanned' = S.scanned
    /\ results' = S.results
    /\ probes' = S.probes
    /\ activeScans' = S.activeScans
    /\ trace' = S.trace
    /\ thrown' = (thrown \/ S.raised)

\* what the caller's callbacks do when invoked by one handler run:
\* abortIn - the callback in which the caller cancels the scan, if any
\* throwIn - the callback that throws, if any
\* late    - more than 50 ms passed since the last progress emission
\*           (now - lastProgressTime > 50; the clock is not modelled)
WellBehaved ==
    [abortIn : {"none", "onResult", "onProgress"}, throwIn : {"none"},
     late : BOOLEAN]

Throwing ==
    [abortIn : {"none"}, throwIn : {"onResult", "onProgress", "onComplete"},
     late : BOOLEAN]

\* ----------------------------------------------------------- scanPort
\* state of one scanPort closure; banner is the length of the captured
\* text, value the resolution of the promise (<<>> while it is pending)
NewProbe ==
    [sock |-> "connecting", resolved |-> FALSE, bannerTimer |-> "none",
     banner |-> 0, payload |-> "none", value |-> <<>>]

\* the bytes written on connect, by port
ProbePayload(port) ==
    IF port = 80 \/ port = 8080 \/ port = 8443 THEN "http-head"
    ELSE IF port = 21 \/ port = 25 \/ port = 110 \/ port = 143 THEN "none"
    ELSE IF port # 443 THEN "crlf"
    ELSE "none"

\* banner.slice(0, 256) || undefined, as a length (0: no banner)
BannerOf(p) == Min(p.banner, BANNER_MAX)

PortResult(port, p, status) ==
    [port |-> port, status |-> status, banner |-> BannerOf(p)]

\* done(): the closure after the first terminal event
Settled(p, r) ==
    [p EXCEPT !.resolved = TRUE, !.sock = "destroyed", !.value = <<r>>]

\* mutant: only a refusal counts as closed
ErrorStatusRefusedOnly(code) ==
    IF code = "ECONNREFUSED" THEN "closed" ELSE "filtered"

\* the socket 'error' handler's classification
ErrorCodes == {"ECONNREFUSED", "ECONNRESET", "ETIMEDOUT", "EHOSTUNREACH"}
\* the errors of a connection attempt the scheduler is exercised with
ConnectErrors == {"ECONNREFUSED", "ETIMEDOUT"}

ErrorStatus(code) ==
    IF code = "ECONNREFUSED" \/ code = "ECONNRESET" THEN "closed"
    ELSE "filtered"

\* ------------------------------------------------------ the registry
isActive(id) == id \in activeScans

\* --------------------------------------------------------- callbacks
\* an invocation is recorded with its argument and with the registry keys
\* as the callback finds them
Emit(S, cb, arg) ==
    [S EXCEPT !.trace = Append(@, [cb |-> cb, arg |-> arg,
                                   reg |-> S.activeScans])]

\* AbortController.abort() on the scan's controller
SignalAbort(S) ==
    IF S.aborted THEN S
    ELSE Emit([S EXCEPT !.aborted = TRUE], "abort", <<>>)

\* mutant: abortScan signals the token whatever the registry holds
abortScanUnchecked(S, id) ==
    [state |-> [SignalAbort(S) EXCEPT !.activeScans = @ \ {id}], ret |-> TRUE]

\* ScannerService.abortScan on registry keys S.activeScans: the state it
\* leaves and the value it returns; the only controller the registry can
\* hold is the running scan's
abortScan(S, id) ==
    IF id \in S.activeScans
    THEN [state |-> [SignalAbort(S) EXCEPT !.activeScans = @ \ {id}],
          ret |-> TRUE]
    ELSE [state |-> S, ret |-> FALSE]

\* mutant: abortScan signals the token and leaves the entry in the registry
AbortScanKeepsEntry(S, id) ==
    IF id \in S.activeScans THEN SignalAbort(S) ELSE S

\* the state after abortScan(id)
AbortScanIn(S, id) == abortScan(S, id).state

\* the caller cancels its scan from inside a callback
CancelFromCallback(o, S) ==
    IF o.entry = "service" THEN AbortScanIn(S, o.scanId) ELSE SignalAbort(S)

\* a caller-supplied callback runs: it is recorded, then may cancel or throw
Invoke(o, S, cb, arg, how) ==
    LET S1 == Emit(S, cb, arg)
        S2 == IF how.abortIn = cb THEN CancelFromCallback(o, S1) ELSE S1
    IN  IF how.throwIn = cb THEN [S2 EXCEPT !.raised = TRUE] ELSE S2

\* mutant: the wrapper empties the registry
onCompleteClearsRegistry(o, S, how) ==
    Invoke(o, [S EXCEPT !.activeScans = {}], "onComplete", S.results, how)

\* mutant: the wrapper leaves the registry entry in place
onCompleteKeepsEntry(o, S, how) == Invoke(o, S, "onComplete", S.results, how)

\* options.onComplete: startScan wraps the caller's callback
onComplete(o, S, how) ==
    IF o.entry = "service"
    THEN Invoke(o, [S EXCEPT !.activeScans = @ \ {o.scanId}],
                "onComplete", S.results, how)
    ELSE Invoke(o, S, "onComplete", S.results, how)

\* mutant: the last port is left out of the count
totalShort(o) == Len(o.ports) - 1

\* ------------------------------------------------------------ runScan
total(o) == Len(o.ports)

\* probes launched and not yet settled
InFlight(S) == {i \in DOMAIN S.probes : ~S.probes[i].resolved}

\* const portIndex = index++; scanPort(host, ports[portIndex], timeout)
LaunchOne(S) ==
    [S EXCEPT !.index = @ + 1, !.probes = Append(@, NewProbe)]

\* mutant: the window test admits one probe too many
RECURSIVE LaunchLoopOver(_, _)
LaunchLoopOver(o, S) ==
    IF /\ S.index < Len(o.ports)
       /\ (S.scanned + (S.index - S.scanned) - Len(S.results)) <= o.concurrency
    THEN LaunchLoopOver(o, LaunchOne(S))
    ELSE S

\* the while loop of next()
RECURSIVE LaunchLoop(_, _)
LaunchLoop(o, S) ==
    IF /\ S.index < total(o)
       /\ (S.scanned + (S.index - S.scanned) - Len(S.results)) < o.concurrency
    THEN LaunchLoop(o, LaunchOne(S))
    ELSE S

\* mutant: next() launches without looking at the signal
nextIgnoringAbort(o, S, how) == LaunchLoop(o, S)

\* next()
next(o, S, how) ==
    IF S.aborted
    THEN IF \/ S.scanned + (total(o) - S.index) >= total(o)
            \/ Len(S.results) = S.scanned
         THEN onComplete(o, S, how)
         ELSE S
    ELSE LaunchLoop(o, S)

\* mutant: the reaction accepts the result without looking at the signal
HandlerNoAbortCheck(o, S, result, how) ==
    LET S1 == [S EXCEPT !.scanned = @ + 1, !.results = Append(@, result)]
        S2 == Invoke(o, S1, "onResult", result, how)
        S3 == IF how.late \/ S2.scanned >= total(o)
              THEN Invoke(o, S2, "onProgress", <<S2.scanned, total(o)>>, how)
              ELSE S2
    IN  IF S3.scanned >= total(o)
        THEN onComplete(o, S3, how)
        ELSE next(o, S3, how)

\* mutant: the reaction does not refill the window
HandlerNoRefill(o, S, result, how) ==
    IF S.aborted
    THEN LET S1 == [S EXCEPT !.scanned = @ + 1]
         IN  IF S1.scanned >= total(o) THEN onComplete(o, S1, how) ELSE S1
    ELSE LET S1 == [S EXCEPT !.scanned = @ + 1,
                             !.results = Append(@, result)]
             S2 == Invoke(o, S1, "onResult", result, how)
             S3 == IF how.late \/ S2.scanned >= total(o)
                   THEN Invoke(o, S2, "onProgress",
                               <<S2.scanned, total(o)>>, how)
                   ELSE S2
         IN  IF S3.scanned >= total(o) THEN onComplete(o, S3, how) ELSE S3

\* mutant: progress is emitted by the throttle alone
HandlerThrottledOnly(o, S, result, how) ==
    IF S.aborted
    THEN LET S1 == [S EXCEPT !.scanned = @ + 1]
         IN  IF S1.scanned >= total(o) THEN onComplete(o, S1, how) ELSE S1
    ELSE LET S1 == [S EXCEPT !.scanned = @ + 1,
                             !.results = Append(@, result)]
             S2 == Invoke(o, S1, "onResult", result, how)
             S3 == IF how.late
                   THEN Invoke(o, S2, "onProgress",
                               <<S2.scanned, total(o)>>, how)
                   ELSE S2
         IN  IF S3.scanned >= total(o)
             THEN onComplete(o, S3, how)
             ELSE next(o, S3, how)

\* the reaction of scanPort(...).then: one settled probe is consumed
Handler(o, S, result, how) ==
    IF S.aborted
    THEN LET S1 == [S EXCEPT !.scanned = @ + 1]
         IN  IF S1.scanned >= total(o) THEN onComplete(o, S1, how) ELSE S1
    ELSE LET S1 == [S EXCEPT !.scanned = @ + 1,
                             !.results = Append(@, result)]
             S2 == Invoke(o, S1, "onResult", result, how)
             S3 == IF S2.raised THEN S2
                   ELSE IF how.late \/ S2.scanned >= total(o)
                        THEN Invoke(o, S2, "onProgress",
                                    <<S2.scanned, total(o)>>, how)
                        ELSE S2
         IN  IF S3.raised THEN S3
             ELSE IF S3.scanned >= total(o)
                  THEN onComplete(o, S3, how)
                  ELSE next(o, S3, how)

\* the initial batch: next() is called min(concurrency, total) times
RECURSIVE InitialBatch(_, _, _, _)
InitialBatch(o, S, n, how) ==
    IF n <= 0 \/ S.raised THEN S
    ELSE InitialBatch(o, next(o, S, how), n - 1, how)

\* mutant: the empty port list is not treated
runScanNoEmptyCase(o, S, how) ==
    InitialBatch(o, S, Min(o.concurrency, total(o)), how)

\* the executor of runScan's promise
runScan(o, S, how) ==
    LET S1 == InitialBatch(o, S, Min(o.concurrency, total(o)), how)
    IN  IF S1.raised THEN S1
        ELSE IF total(o) = 0 THEN onComplete(o, S1, how)
        ELSE S1

\* ------------------------------------------------------------ targets
\* a target is a sequence of characters
Digits == {"0", "1", "2", "3", "4", "5", "6", "7", "8", "9"}
LowerCase ==
    <<"a", "b", "c", "d", "e", "f", "g", "h", "i", "j", "k", "l", "m",
      "n", "o", "p", "q", "r", "s", "t", "u", "v", "w", "x", "y", "z">>
UpperCase ==
    <<"A", "B", "C", "D", "E", "F", "G", "H", "I", "J", "K", "L", "M",
      "N", "O", "P", "Q", "R", "S", "T", "U", "V", "W", "X", "Y", "Z">>
AlphaNum ==
    Digits \cup {LowerCase[k] : k \in DOMAIN LowerCase}
           \cup {UpperCase[k] : k \in DOMAIN UpperCase}
\* the characters String.prototype.trim removes, as far as targets use them
WhiteSpace == {" "}

\* the 'i' flag of the protocol pattern
ToLower(c) ==
    IF \E k \in DOMAIN UpperCase : UpperCase[k] = c
    THEN LowerCase[CHOOSE k \in DOMAIN UpperCase : UpperCase[k] = c]
    ELSE c

\* input.trim()
RECURSIVE Trim(_)
Trim(t) ==
    IF t = <<>> THEN t
    ELSE IF t[1] \in WhiteSpace THEN Trim(Tail(t))
    ELSE IF t[Len(t)] \in WhiteSpace THEN Trim(SubSeq(t, 1, Len(t) - 1))
    ELSE t

\* t starts with the characters of prefix, whatever their case
StartsWithNoCase(t, prefix) ==
    /\ Len(t) >= Len(prefix)
    /\ \A k \in DOMAIN prefix : ToLower(t[k]) = prefix[k]

\* mutant: the scheme is matched in lower case only
StripProtocolExact(t) ==
    IF Len(t) >= 8 /\ SubSeq(t, 1, 8) = <<"h", "t", "t", "p", "s", ":", "/", "/">>
    THEN SubSeq(t, 9, Len(t))
    ELSE IF Len(t) >= 7 /\ SubSeq(t, 1, 7) = <<"h", "t", "t", "p", ":", "/", "/">>
         THEN SubSeq(t, 8, Len(t))
         ELSE t

\* target.replace(/^https?:\/\//i, '')
StripProtocol(t) ==
    IF StartsWithNoCase(t, <<"h", "t", "t", "p", "s", ":", "/", "/">>)
    THEN SubSeq(t, 9, Len(t))
    ELSE IF StartsWithNoCase(t, <<"h", "t", "t", "p", ":", "/", "/">>)
         THEN SubSeq(t, 8, Len(t))
         ELSE t

\* t.split(sep)[0]: what stands before the first sep
FirstField(t, sep) ==
    IF \E k \in DOMAIN t : t[k] = sep
    THEN SubSeq(t, 1, (CHOOSE k \in DOMAIN t :
                          /\ t[k] = sep
                          /\ \A j \in 1..(k - 1) : t[j] # sep) - 1)
    ELSE t

\* t.split(sep): the fields between the separators
RECURSIVE Fields(_, _)
Fields(t, sep) ==
    LET f == FirstField(t, sep)
    IN  IF Len(f) = Len(t) THEN <<f>>
        ELSE <<f>> \o Fields(SubSeq(t, Len(f) + 2, Len(t)), sep)

sanitizeTarget(input) ==
    FirstField(FirstField(StripProtocol(Trim(input)), "/"), ":")

\* /^\d{1,3}\.\d{1,3}\.\d{1,3}\.\d{1,3}$/
IsIPv4(t) ==
    LET g == Fields(t, ".")
    IN  /\ Len(g) = 4
        /\ \A k \in DOMAIN g :
              /\ Len(g[k]) \in 1..3
              /\ \A j \in DOMAIN g[k] : g[k][j] \in Digits

\* mutant: a label may start and end with a hyphen
IsLabelAnyEdge(l) ==
    /\ Len(l) \in 1..63
    /\ \A j \in DOMAIN l : l[j] \in AlphaNum \cup {"-"}

\* one label of the hostname pattern:
\* [a-zA-Z0-9]([a-zA-Z0-9-]{0,61}[a-zA-Z0-9])?
IsLabel(l) ==
    /\ Len(l) \in 1..63
    /\ l[1] \in AlphaNum
    /\ l[Len(l)] \in AlphaNum
    /\ \A j \in DOMAIN l : l[j] \in AlphaNum \cup {"-"}

\* the hostname pattern: labels separated by dots
IsHostname(t) ==
    LET g == Fields(t, ".") IN \A k \in DOMAIN g : IsLabel(g[k])

\* mutant: every target passes
validateAny(target) == TRUE

validateTarget(target) ==
    IF Len(target) = 0 \/ Len(target) > MAX_TARGET_LEN THEN FALSE
    ELSE IF IsIPv4(target) THEN TRUE
    ELSE IsHostname(target)

\* the target of the scans that exercise the scheduler and the probe
LocalTarget == <<"1", "0", ".", "0", ".", "0", ".", "1">>

\* targets handed to startScan: an address, a URL with port and path, the
\* empty string, blanks, a label that starts with a hyphen, a name with an
\* underscore, a name longer than a target may be
SampleTargets ==
    { LocalTarget,
      <<"H", "t", "t", "p", ":", "/", "/", "a", ".", "b", ":", "8", "0",
        "/", "x">>,
      <<>>,
      <<" ", " ">>,
      <<"-", "a">>,
      <<"a", "_", "b">>,
      [k \in 1..(MAX_TARGET_LEN + 1) |-> "a"] }

\* targets that exercise every step of the sanitation and every clause of
\* the validation
UrlWithPortAndPath ==
    <<"h", "t", "t", "p", ":", "/", "/", "1", "9", "2", ".", "1",
      "6", "8", ".", "1", ".", "1", ":", "8", "0", "8", "0", "/",
      "p", "a", "t", "h">>
UrlWithSlash ==
    <<"h", "t", "t", "p", "s", ":", "/", "/", "e", "x", "a", "m",
      "p", "l", "e", ".", "c", "o", "m", "/">>
BareAddress ==
    <<"1", "9", "2", ".", "1", "6", "8", ".", "1", ".", "1">>
BareName ==
    <<"e", "x", "a", "m", "p", "l", "e", ".", "c", "o", "m">>
UpperCaseUrl ==
    <<"H", "T", "T", "P", "S", ":", "/", "/", "E", "x", "a", "m",
      "p", "l", "e", ".", "c", "o", "m", ":", "4", "4", "3">>
PaddedName ==
    <<" ", " ", "e", "x", "a", "m", "p", "l", "e", ".", "c", "o",
      "m", " ">>
PaddedUrl ==
    <<" ", "h", "t", "t", "p", ":", "/", "/", "1", "0", ".", "0",
      ".", "0", ".", "1", "/">>
SchemeOnly ==
    <<"h", "t", "t", "p", ":", "/", "/">>
WideOctets ==
    <<"9", "9", "9", ".", "9", "9", "9", ".", "9", "9", "9", ".",
      "9", "9", "9">>
ThreeGroups ==
    <<"1", ".", "2", ".", "3">>
FourDigitOctet ==
    <<"1", "2", "3", "4", ".", "1", ".", "1", ".", "1">>
HyphenInside ==
    <<"a", "-", "b", ".", "c">>
HyphenLast ==
    <<"a", "-", ".", "b">>
EmptyLabel ==
    <<"a", ".", ".", "b">>
TrailingDot ==
    <<"a", ".", "b", ".">>
InnerBlank ==
    <<"a", " ", "b">>
DoubleScheme ==
    <<"h", "t", "t", "p", ":", "/", "/", "h", "t", "t", "p", "s", ":",
      "/", "/", "a", ".", "b">>
OfLength(n) == [k \in 1..n |-> "a"]
\* labels of 63 and of 64 characters, names of 255 and of 256 characters
LongestLabel == OfLength(63)
TooLongLabel == OfLength(64)
LongestName ==
    LongestLabel \o <<".">> \o LongestLabel \o <<".">> \o LongestLabel
                 \o <<".">> \o LongestLabel
TooLongName == LongestName \o <<"a">>

NormalizeSamples ==
    SampleTargets
        \cup {DoubleScheme,
              UrlWithPortAndPath,
              UrlWithSlash,
              BareAddress,
              BareName,
              UpperCaseUrl,
              PaddedName,
              PaddedUrl,
              SchemeOnly,
              WideOctets,
              ThreeGroups,
              FourDigitOctet,
              HyphenInside,
              HyphenLast,
              EmptyLabel,
              TrailingDot,
              InnerBlank,
              LongestLabel, TooLongLabel, LongestName, TooLongName,
              OfLength(300)}

\* ------------------------------------------------------- startScan
\* Math.max(10, Math.min(config.concurrency, 500))
EffectiveConcurrency(c) == Max(MIN_CONCURRENCY, Min(c, MAX_CONCURRENCY))

\* mutant: one ceiling for every scan
EffectiveTimeoutFlat(t, n) == Min(t, SMALL_TIMEOUT)

\* shorter ceiling for large scans
EffectiveTimeout(t, n) ==
    IF n > LARGE_SCAN THEN Min(t, LARGE_TIMEOUT) ELSE Min(t, SMALL_TIMEOUT)

\* the .catch of startScan: a rejection of runScan's promise
catchFatal(o, S) ==
    IF S.raised
    THEN Emit([S EXCEPT !.activeScans = @ \ {o.scanId}], "onComplete", <<>>)
    ELSE S

\* port lists of the data model: distinct ports of U, at most n of them,
\* in ascending order as a port range or preset lists them
ListsOver(U, n) ==
    UNION {{ps \in [1..m -> U] :
               \A i, j \in 1..m : i < j => ps[i] < ps[j]} : m \in 0..n}

PortLists == ListsOver(PortUniverse, MaxPorts)

\* the port lists of the scans that exercise the probe
ShortLists == ListsOver(ProbePorts, MaxProbePorts)

\* callbacks that neither cancel nor throw
Quiet == [abortIn |-> "none", throwIn |-> "none", late |-> FALSE]

\* the second scan before it is started
NoPeer ==
    [started |-> FALSE, scanId |-> "none", ports |-> <<>>, concurrency |-> 0,
     timeout |-> 0, aborted |-> FALSE, index |-> 0, scanned |-> 0, results |-> <<>>,
     probes |-> <<>>, trace |-> <<>>]

\* ids of the scan records the start-scan requests of one connection get
ConnScans == {"c1", "c2"}

\* the closure of io.on('connection'): connected, currentScanId, each
\* start-scan request (phase: none, awaiting the scan record, started,
\* refused) with its data, the scans it started, the onComplete callbacks
\* suspended before their emit, and the events emitted to the client
NoConn ==
    [connected |-> TRUE,
     currentScanId |-> NoId,
     phase |-> [id \in ConnScans |-> "none"],
     data |-> [id \in ConnScans |-> [target |-> <<>>, ports |-> <<>>]],
     scans |-> [id \in ConnScans |-> NoPeer],
     completing |-> [id \in ConnScans |-> 0],
     emitted |-> <<>>]

Init ==
    /\ started = FALSE
    /\ entry = "none"
    /\ scanId = NoId
    /\ ports = <<>>
    /\ concurrency = 0
    /\ timeout = 0
    /\ aborted = FALSE
    /\ index = 0
    /\ scanned = 0
    /\ results = <<>>
    /\ probes = <<>>
    /\ activeScans = {}
    /\ trace = <<>>
    /\ thrown = FALSE
    /\ invalidTarget = {}
    /\ startReturn = <<>>
    /\ peer = NoPeer
    /\ holder = "none"
    /\ conn = NoConn
    /\ insight = <<>>
    /\ report = <<>>
    /\ previous = <<>>

\* mutant: the registry entry is created before the target is validated
StartScanRegistersFirst(id, target, ps, c, t, how) ==
    IF ~validateTarget(sanitizeTarget(target))
    THEN /\ invalidTarget' = invalidTarget \cup {id}
         /\ activeScans' = activeScans \cup {id}
         /\ startReturn' = <<[input |-> target, threw |-> TRUE,
                              target |-> <<>>]>>
         /\ UNCHANGED <<started, entry, scanId, ports, concurrency, timeout,
                        aborted, index, scanned, results, probes, trace,
                        thrown, peer, holder,
                        conn, analysis>>
    ELSE /\ ~started
         /\ LET o == [entry |-> "service", scanId |-> id, ports |-> ps,
                      concurrency |-> EffectiveConcurrency(c),
                      timeout |-> EffectiveTimeout(t, Len(ps))]
                S0 == [Sched EXCEPT !.activeScans = @ \cup {id}]
            IN  /\ started' = TRUE
                /\ entry' = o.entry
                /\ scanId' = o.scanId
                /\ ports' = o.ports
                /\ concurrency' = o.concurrency
                /\ timeout' = o.timeout
                /\ Commit(catchFatal(o, runScan(o, S0, how)))
                /\ startReturn' = <<[input |-> target, threw |-> FALSE,
                                     target |-> sanitizeTarget(target)]>>
                /\ holder' = "first"
                /\ UNCHANGED <<invalidTarget, peer, conn, analysis>>

\* ScannerService.startScan: a target that fails validation makes it throw
\* before anything else is done
StartScan(id, target, ps, c, t, how) ==
    IF ~validateTarget(sanitizeTarget(target))
    THEN /\ invalidTarget' = invalidTarget \cup {id}
         /\ startReturn' = <<[input |-> target, threw |-> TRUE,
                              target |-> <<>>]>>
         /\ UNCHANGED <<started, entry, scanId, ports, concurrency, timeout,
                        aborted, index, scanned, results, probes, activeScans,
                        trace, thrown, peer, holder,
                        conn, analysis>>
    ELSE /\ ~started
         /\ LET o == [entry |-> "service", scanId |-> id, ports |-> ps,
                      concurrency |-> EffectiveConcurrency(c),
                      timeout |-> EffectiveTimeout(t, Len(ps))]
                S0 == [Sched EXCEPT !.activeScans = @ \cup {id}]
            IN  /\ started' = TRUE
                /\ entry' = o.entry
                /\ scanId' = o.scanId
                /\ ports' = o.ports
                /\ concurrency' = o.concurrency
                /\ timeout' = o.timeout
                /\ Commit(catchFatal(o, runScan(o, S0, how)))
                /\ startReturn' = <<[input |-> target, threw |-> FALSE,
                                     target |-> sanitizeTarget(target)]>>
                /\ holder' = "first"
                /\ UNCHANGED <<invalidTarget, peer, conn, analysis>>

\* runScan called by a caller that owns the AbortController; pre: the
\* signal is already aborted at the call
RunScanDirect(ps, c, t, pre, how) ==
    /\ ~started
    /\ LET o == [entry |-> "direct", scanId |-> NoId, ports |-> ps,
                 concurrency |-> c, timeout |-> t]
           S0 == [Sched EXCEPT !.aborted = pre]
       IN  /\ started' = TRUE
           /\ entry' = o.entry
           /\ scanId' = o.scanId
           /\ ports' = o.ports
           /\ concurrency' = o.concurrency
           /\ timeout' = o.timeout
           /\ Commit(runScan(o, S0, how))
           /\ UNCHANGED <<invalidTarget, startReturn, peer, holder,
                        conn, analysis>>

\* ------------------------------------------------- the second scan
\* the id the second scan is started under
PeerId == "s2"

PeerOpts ==
    [entry |-> "service", scanId |-> peer.scanId, ports |-> peer.ports,
     concurrency |-> peer.concurrency, timeout |-> peer.timeout]

\* the second scan's own runScan state, and the registry both scans share
PeerSched ==
    [aborted |-> peer.aborted, index |-> peer.index, scanned |-> peer.scanned,
     results |-> peer.results, probes |-> peer.probes,
     activeScans |-> activeScans, trace |-> peer.trace, raised |-> FALSE]

PeerCommit(S) ==
    /\ peer' = [peer EXCEPT !.aborted = S.aborted, !.index = S.index,
                            !.scanned = S.scanned, !.results = S.results,
                            !.probes = S.probes, !.trace = S.trace]
    /\ activeScans' = S.activeScans
    /\ UNCHANGED <<started, entry, scanId, ports, concurrency, timeout,
                   aborted, index, scanned, results, probes, trace, thrown,
                   invalidTarget, startReturn, holder, conn, analysis>>

\* ScannerService.startScan for the second scan, with a valid target
PeerStart(id, ps, c, t) ==
    /\ ~peer.started
    /\ LET o == [entry |-> "service", scanId |-> id, ports |-> ps,
                 concurrency |-> EffectiveConcurrency(c),
                 timeout |-> EffectiveTimeout(t, Len(ps))]
           S0 == [aborted |-> FALSE, index |-> 0, scanned |-> 0,
                  results |-> <<>>, probes |-> <<>>,
                  activeScans |-> activeScans \cup {id},
                  trace |-> <<>>, raised |-> FALSE]
           S1 == catchFatal(o, runScan(o, S0, Quiet))
       IN  /\ peer' = [started |-> TRUE, scanId |-> id, ports |-> o.ports,
                       concurrency |-> o.concurrency, timeout |-> o.timeout,
                       aborted |-> S1.aborted, index |-> S1.index,
                       scanned |-> S1.scanned, results |-> S1.results,
                       probes |-> S1.probes, trace |-> S1.trace]
           /\ activeScans' = S1.activeScans
           /\ startReturn' = <<[input |-> LocalTarget, threw |-> FALSE,
                                target |-> sanitizeTarget(LocalTarget)]>>
           /\ holder' = "second"
    /\ UNCHANGED <<started, entry, scanId, ports, concurrency, timeout,
                   aborted, index, scanned, results, probes, trace, thrown,
                   invalidTarget, conn, analysis>>

\* a probe of the second scan settles: done(status) and the reaction
PeerSettle(i, status) ==
    /\ i \in DOMAIN peer.probes
    /\ ~peer.probes[i].resolved
    /\ LET r == PortResult(peer.ports[i], peer.probes[i], status)
           S0 == [PeerSched EXCEPT !.probes[i] = Settled(peer.probes[i], r)]
       IN  PeerCommit(Handler(PeerOpts, S0, r, Quiet))

\* the scan whose controller activeScans.get(id) returns: when both scans
\* were started under id, the one that set the entry last
Owner(id) ==
    IF peer.started /\ peer.scanId = id
    THEN IF started /\ entry = "service" /\ scanId = id
         THEN holder
         ELSE "second"
    ELSE "first"

\* ScannerService.abortScan(id), called between two tasks: the controller
\* found under id is the first scan's or the second's
AbortScan(id) ==
    IF Owner(id) = "second"
    THEN PeerCommit(AbortScanIn(PeerSched, id))
    ELSE /\ Commit(AbortScanIn(Sched, id))
         /\ UNCHANGED config

\* controller.abort() by the caller of a direct scan, between two tasks
CallerAbort ==
    /\ started
    /\ entry = "direct"
    /\ ~aborted
    /\ Commit(SignalAbort(Sched))
    /\ UNCHANGED config

\* ------------------------------------------------- events of a probe
\* mutant: done() without the resolved guard
DoneUnguarded(i, p, status, how) ==
    /\ LET r == PortResult(ports[i], p, status)
           S0 == [Sched EXCEPT !.probes[i] = Settled(p, r)]
       IN  Commit(Handler(Opts, S0, r, how))
    /\ UNCHANGED config

\* done(status) on closure state p of probe i, and the reaction it triggers
Done(i, p, status, how) ==
    /\ IF p.resolved
       THEN Commit([Sched EXCEPT !.probes[i] = p])
       ELSE LET r == PortResult(ports[i], p, status)
                S0 == [Sched EXCEPT !.probes[i] = Settled(p, r)]
            IN  Commit(Handler(Opts, S0, r, how))
    /\ UNCHANGED config

\* 'connect': the payload is written and the banner window opens
Connect(i) ==
    /\ i \in DOMAIN probes
    /\ probes[i].sock = "connecting"
    /\ probes' = [probes EXCEPT ![i] =
                     [@ EXCEPT !.sock = "connected",
                               !.payload = ProbePayload(ports[i]),
                               !.bannerTimer = "armed"]]
    /\ UNCHANGED <<config, aborted, index, scanned, results, activeScans,
                   trace, thrown>>

\* 'data': the first chunk of n bytes arrives
\* mutant: the data handler keeps the text and leaves the probe pending
DataEventNoSettle(i, n, how) ==
    /\ i \in DOMAIN probes
    /\ probes[i].sock = "connected"
    /\ probes[i].banner = 0
    /\ Commit([Sched EXCEPT !.probes[i].banner = Min(n, BANNER_MAX)])
    /\ UNCHANGED config

DataEvent(i, n, how) ==
    /\ i \in DOMAIN probes
    /\ probes[i].sock = "connected"
    /\ Done(i, [probes[i] EXCEPT !.banner = @ + Min(n, BANNER_MAX),
                                 !.bannerTimer = "cleared"], "open", how)

\* the banner timer fires 400 ms after the connect; the socket's idle timer
\* (timeout ms after the connect) fires before it when timeout is shorter
BannerExpire(i, how) ==
    /\ i \in DOMAIN probes
    /\ probes[i].bannerTimer = "armed"
    /\ probes[i].sock = "connected" => timeout >= BANNER_WINDOW
    /\ Done(i, [probes[i] EXCEPT !.bannerTimer = "fired"], "open", how)

\* 'timeout': the idle timer set by socket.setTimeout(timeout) fires, during
\* the connect or, when it is not longer than the banner window, after it
SocketTimeout(i, how) ==
    /\ i \in DOMAIN probes
    /\ \/ probes[i].sock = "connecting"
       \/ probes[i].sock = "connected" /\ timeout <= BANNER_WINDOW
    /\ Done(i, probes[i], "filtered", how)

\* 'error' with an errno code; a refusal only answers a connection attempt
SocketError(i, code, how) ==
    /\ i \in DOMAIN probes
    /\ \/ probes[i].sock = "connecting"
       \/ probes[i].sock = "connected" /\ code # "ECONNREFUSED"
    /\ Done(i, probes[i], ErrorStatus(code), how)

Positions == 1..Max(MaxPorts, Max(MaxProbePorts, MaxThrowPorts))

\* one step of the program, for scans drawn from the given inputs: pairs
\* of a port list and a requested timeout, started under the given ids for
\* the given targets
NextOf(ids, targets, inputs, chunks, codes, startHows, hows) ==
    \/ \E id \in ids, target \in targets, in \in inputs,
          c \in ConcurrencyRequests, how \in startHows :
          StartScan(id, target, in[1], c, in[2], how)
    \/ \E in \in inputs, c \in 1..MaxConcurrency, pre \in BOOLEAN,
          how \in startHows : RunScanDirect(in[1], c, in[2], pre, how)
    \/ \E id \in AbortIds : AbortScan(id)
    \/ CallerAbort
    \/ \E i \in Positions : Connect(i)
    \/ \E i \in Positions, n \in chunks, how \in hows : DataEvent(i, n, how)
    \/ \E i \in Positions, how \in hows : BannerExpire(i, how)
    \/ \E i \in Positions, how \in hows : SocketTimeout(i, how)
    \/ \E i \in Positions, code \in codes, how \in hows :
          SocketError(i, code, how)

\* the scheduler: port lists up to MaxPorts; with a timeout equal to the
\* banner window every event of a probe can occur
Next ==
    NextOf(ScanIds, {LocalTarget}, PortLists \X {BANNER_WINDOW}, {300},
           ConnectErrors, {Quiet}, WellBehaved)

Spec == Init /\ [][Next]_vars

\* callbacks that do not cancel the scan
Polite == {how \in WellBehaved : how.abortIn = "none"}

\* scans that are cancelled, if at all, between two tasks: the port lists
\* of the scheduler, and every timeout class on the short lists; the
\* throttle, which only decides whether onProgress is emitted, stays closed
LiveNext ==
    NextOf(ScanIds, {LocalTarget},
           (PortLists \X {BANNER_WINDOW}) \cup (ShortLists \X TimeoutRequests),
           {300}, ConnectErrors, {Quiet}, {Quiet})

\* any event of probe i
ProbeStep(i) ==
    \/ Connect(i)
    \/ DataEvent(i, 300, Quiet)
    \/ BannerExpire(i, Quiet)
    \/ SocketTimeout(i, Quiet)
    \/ \E code \in ConnectErrors : SocketError(i, code, Quiet)

\* the idle timer (timeout > 0) and the banner timer of a launched probe
\* fire unless another event of the probe comes first
FairSpec ==
    Init /\ [][LiveNext]_vars /\ \A i \in Positions : WF_vars(ProbeStep(i))

\* callbacks that may throw, on port lists up to MaxThrowPorts
ThrowsOnComplete == [abortIn |-> "none", throwIn |-> "onComplete", late |-> FALSE]

ThrowNext ==
    NextOf(ScanIds, {LocalTarget},
           ListsOver(PortUniverse, MaxThrowPorts) \X {BANNER_WINDOW},
           {300}, ConnectErrors, {Quiet, ThrowsOnComplete},
           Polite \cup Throwing)

ThrowSpec == Init /\ [][ThrowNext]_vars

\* the probe: every timeout class and chunk size, on short port lists
ProbeNext ==
    NextOf(ScanIds, {LocalTarget}, ShortLists \X TimeoutRequests, ChunkLens,
           ErrorCodes, {Quiet}, WellBehaved)

ProbeSpec == Init /\ [][ProbeNext]_vars

\* startScan called with every sample target, under an id of its own or
\* the id of another scan, for scans of one port at most
TargetNext ==
    NextOf(AbortIds, SampleTargets, {<<>>, <<22>>} \X {BANNER_WINDOW}, {300},
           ConnectErrors, {Quiet}, WellBehaved)

TargetSpec == Init /\ [][TargetNext]_vars

\* two scans under different ids: the first of one or two ports, started
\* either way, the second a service scan; either is cancelled by abortScan
DuoLists == {<<22>>, <<22, 80>>}
PeerLists == {<<80>>, <<80, 443>>}

DuoNext ==
    \/ NextOf(ScanIds, {LocalTarget}, DuoLists \X {BANNER_WINDOW}, {300},
              ConnectErrors, {Quiet}, {Quiet})
    \/ \E ps \in PeerLists : PeerStart(PeerId, ps, 1, BANNER_WINDOW)
    \/ \E i \in Positions, status \in {"open", "closed"} :
          PeerSettle(i, status)

DuoSpec == Init /\ [][DuoNext]_vars

\* two scans started under the same id, in either order, one of them
\* possibly while the other is running or has been aborted
ReuseNext ==
    \/ NextOf(ScanIds, {LocalTarget}, {<<22>>} \X {BANNER_WINDOW}, {300},
              ConnectErrors, {Quiet}, {Quiet})
    \/ \E id \in ScanIds : PeerStart(id, <<80>>, 1, BANNER_WINDOW)
    \/ \E i \in Positions, status \in {"open", "closed"} :
          PeerSettle(i, status)

ReuseSpec == Init /\ [][ReuseNext]_vars

\* startScan called with every sample of the sanitation and validation,
\* for scans of an empty port list
NormalizeNext ==
    \/ \E id \in AbortIds, target \in NormalizeSamples :
          StartScan(id, target, <<>>, 1, BANNER_WINDOW, Quiet)
    \/ \E id \in AbortIds : AbortScan(id)

NormalizeSpec == Init /\ [][NormalizeNext]_vars

\* requested concurrency and timeout values around the clamping limits, and
\* port lists around the size at which a scan counts as large
ClampConcurrency == {-5, 0, 9, 10, 11, 12, 250, 500, 501, 1000}
ClampTimeouts == {0, 399, 400, 401, 799, 800, 801, 5000}
SmallClampLists == {[k \in 1..n |-> k] : n \in {0, 1}}
LargeClampLists == {[k \in 1..n |-> k] : n \in {LARGE_SCAN, LARGE_SCAN + 1}}

\* the requests: <<ports, concurrency, timeout>>; the long lists are
\* scanned through a narrow window
ClampRequests ==
    (SmallClampLists \X ClampConcurrency \X ClampTimeouts)
        \cup (LargeClampLists \X {c \in ClampConcurrency : c <= 12}
                              \X ClampTimeouts)

\* startScan with every such request, and abortScan
ClampNext ==
    \/ \E id \in ScanIds, rq \in ClampRequests :
          StartScan(id, LocalTarget, rq[1], rq[2], rq[3], Quiet)
    \/ \E id \in AbortIds : AbortScan(id)

ClampSpec == Init /\ [][ClampNext]_vars

\* ------------------------------------------------- a client connection
\* what the requests carry: a valid and an invalid target, one or two ports
ConnTargets == {LocalTarget, <<>>}
ConnLists == {<<22>>, <<22, 80>>}

ConnOpts(id) ==
    [entry |-> "service", scanId |-> id, ports |-> conn.scans[id].ports,
     concurrency |-> conn.scans[id].concurrency,
     timeout |-> conn.scans[id].timeout]

\* the runScan state of the connection's scan id, and the registry
ConnSched(id) ==
    [aborted |-> conn.scans[id].aborted, index |-> conn.scans[id].index,
     scanned |-> conn.scans[id].scanned, results |-> conn.scans[id].results,
     probes |-> conn.scans[id].probes, activeScans |-> activeScans,
     trace |-> conn.scans[id].trace, raised |-> FALSE]

StoreScan(sc, S) ==
    [sc EXCEPT !.aborted = S.aborted, !.index = S.index,
               !.scanned = S.scanned, !.results = S.results,
               !.probes = S.probes, !.trace = S.trace]

SocketEmit(c, event, id) ==
    [c EXCEPT !.emitted = Append(@, [event |-> event, scanId |-> id])]

\* the callbacks handed to startScan, run for the invocations news of scan
\* id in order: onResult emits port:found for an open port, onProgress
\* emits scan:progress, onComplete clears currentScanId and suspends
RECURSIVE Callbacks(_, _, _)
Callbacks(c, id, news) ==
    IF news = <<>>
    THEN c
    ELSE LET e == Head(news)
             c1 == CASE e.cb = "onResult" ->
                          IF e.arg.status = "open"
                          THEN SocketEmit(c, "port:found", id)
                          ELSE c
                     [] e.cb = "onProgress" ->
                          SocketEmit(c, "scan:progress", id)
                     [] e.cb = "onComplete" ->
                          [c EXCEPT !.currentScanId = NoId,
                                    !.completing[id] = @ + 1]
                     [] OTHER -> c
         IN  Callbacks(c1, id, Tail(news))

\* the invocations S adds to the trace of scan id
NewCalls(id, S) ==
    SubSeq(S.trace, Len(conn.scans[id].trace) + 1, Len(S.trace))

\* what a connection step leaves alone
ConnFrame ==
    UNCHANGED <<started, entry, scanId, ports, concurrency, timeout, aborted,
                index, scanned, results, probes, trace, thrown,
                invalidTarget, startReturn, peer, holder, analysis>>

\* ScannerService.abortScan(currentScanId) as the handlers call it: the
\* connection and the registry afterwards, and the value returned
AbortCurrent ==
    LET cur == conn.currentScanId
        A == abortScan(ConnSched(cur), cur)
    IN  [conn |-> [conn EXCEPT !.scans[cur] = StoreScan(@, A.state),
                               !.currentScanId = NoId],
         reg |-> A.state.activeScans,
         ret |-> A.ret]

\* socket.on('start-scan') up to the await of the scan record
StartScanRequest(id, target, ps) ==
    /\ conn.connected
    /\ conn.phase[id] = "none"
    /\ LET c0 == IF conn.currentScanId # NoId THEN AbortCurrent.conn ELSE conn
       IN  /\ conn' = [c0 EXCEPT !.phase[id] = "awaiting",
                                 !.data[id] = [target |-> target,
                                               ports |-> ps]]
           /\ activeScans' = IF conn.currentScanId # NoId
                             THEN AbortCurrent.reg
                             ELSE activeScans
    /\ ConnFrame

\* socket.on('start-scan') from the scan record on: currentScanId, the
\* scan:start event, startScan, scan:error when it throws
ResumeStartScan(id) ==
    /\ conn.phase[id] = "awaiting"
    /\ LET d == conn.data[id]
           c0 == SocketEmit([conn EXCEPT !.currentScanId = id],
                            "scan:start", id)
       IN  IF ~validateTarget(sanitizeTarget(d.target))
           THEN /\ conn' = SocketEmit([c0 EXCEPT !.phase[id] = "refused"],
                                      "scan:error", id)
                /\ activeScans' = activeScans
           ELSE LET o == [entry |-> "service", scanId |-> id,
                          ports |-> d.ports,
                          concurrency |->
                              EffectiveConcurrency(DEFAULT_CONCURRENCY),
                          timeout |->
                              EffectiveTimeout(DEFAULT_TIMEOUT, Len(d.ports))]
                    S0 == [aborted |-> FALSE, index |-> 0, scanned |-> 0,
                           results |-> <<>>, probes |-> <<>>,
                           activeScans |-> activeScans \cup {id},
                           trace |-> <<>>, raised |-> FALSE]
                    S1 == catchFatal(o, runScan(o, S0, Quiet))
                    c1 == [c0 EXCEPT
                             !.phase[id] = "started",
                             !.scans[id] =
                                 [started |-> TRUE, scanId |-> id,
                                  ports |-> o.ports,
                                  concurrency |-> o.concurrency,
                                  timeout |-> o.timeout,
                                  aborted |-> S1.aborted,
                                  index |-> S1.index,
                                  scanned |-> S1.scanned,
                                  results |-> S1.results,
                                  probes |-> S1.probes,
                                  trace |-> S1.trace]]
                IN  /\ conn' = Callbacks(c1, id, S1.trace)
                    /\ activeScans' = S1.activeScans
    /\ ConnFrame

\* a probe of the connection's scan id settles: done(status), the reaction
\* of runScan and the callbacks it invokes
ConnSettle(id, i, status) ==
    /\ i \in DOMAIN conn.scans[id].probes
    /\ ~conn.scans[id].probes[i].resolved
    /\ LET p == conn.scans[id].probes[i]
           r == PortResult(conn.scans[id].ports[i], p, status)
           S0 == [ConnSched(id) EXCEPT !.probes[i] = Settled(p, r)]
           S1 == Handler(ConnOpts(id), S0, r, Quiet)
       IN  /\ conn' = Callbacks([conn EXCEPT !.scans[id] = StoreScan(@, S1)],
                                id, NewCalls(id, S1))
           /\ activeScans' = S1.activeScans
    /\ ConnFrame

\* the onComplete callback of scan id resumes after its awaits and emits
EmitComplete(id) ==
    /\ conn.completing[id] > 0
    /\ conn' = SocketEmit([conn EXCEPT !.completing[id] = @ - 1],
                          "scan:complete", id)
    /\ UNCHANGED activeScans
    /\ ConnFrame

\* socket.on('abort-scan') with a scan tracked
AbortScanRequest ==
    /\ conn.connected
    /\ conn.currentScanId # NoId
    /\ conn' = IF AbortCurrent.ret
               THEN SocketEmit(AbortCurrent.conn, "scan:aborted",
                               conn.currentScanId)
               ELSE AbortCurrent.conn
    /\ activeScans' = AbortCurrent.reg
    /\ ConnFrame

\* socket.on('disconnect')
Disconnect ==
    /\ conn.connected
    /\ conn' = [(IF conn.currentScanId # NoId THEN AbortCurrent.conn
                 ELSE conn) EXCEPT !.connected = FALSE]
    /\ activeScans' = IF conn.currentScanId # NoId
                      THEN AbortCurrent.reg
                      ELSE activeScans
    /\ ConnFrame

ConnNext ==
    \/ \E id \in ConnScans, target \in ConnTargets, ps \in ConnLists :
          StartScanRequest(id, target, ps)
    \/ \E id \in ConnScans : ResumeStartScan(id)
    \/ \E id \in ConnScans, i \in Positions, status \in {"open", "closed"} :
          ConnSettle(id, i, status)
    \/ \E id \in ConnScans : EmitComplete(id)
    \/ AbortScanRequest
    \/ Disconnect

ConnSpec == Init /\ [][ConnNext]_vars

\* ----------------------------------------------------------- AIEngine
VULN_DB ==
    (21 :> [severity |-> "Medium", title |-> "FTP Service Exposed",
            description |-> "FTP may allow anonymous access or brute-force.",
            remediation |-> "Disable anonymous login; use SFTP instead."])
 @@ (22 :> [severity |-> "Low", title |-> "SSH Service Exposed",
            description |-> "SSH is exposed to brute-force attacks.",
            remediation |-> "Use key-based auth; disable password login."])
 @@ (23 :> [severity |-> "High", title |-> "Telnet Plaintext Protocol",
            description |-> "Telnet sends all data in cleartext.",
            remediation |-> "Disable Telnet; migrate to SSH."])
 @@ (25 :> [severity |-> "Medium", title |-> "SMTP Open Relay Risk",
            description |-> "SMTP may be an open relay for spam.",
            remediation |-> "Restrict relay; enable authentication."])
 @@ (53 :> [severity |-> "Low", title |-> "DNS Service Exposed",
            description |-> "DNS may be vulnerable to amplification.",
            remediation |-> "Restrict recursive queries; use rate limiting."])
 @@ (80 :> [severity |-> "Low", title |-> "Unencrypted HTTP",
            description |-> "HTTP traffic is unencrypted.",
            remediation |-> "Enforce HTTPS with TLS certificates."])
 @@ (110 :> [severity |-> "Medium", title |-> "POP3 Plaintext Risk",
             description |-> "POP3 sends credentials in cleartext.",
             remediation |-> "Use POP3S (port 995) with TLS."])
 @@ (135 :> [severity |-> "High", title |-> "Windows RPC Exposed",
             description |-> "MSRPC is a common attack vector.",
             remediation |-> "Block port 135 at the firewall."])
 @@ (139 :> [severity |-> "High", title |-> "NetBIOS Session Service",
             description |-> "NetBIOS enables SMB enumeration.",
             remediation |-> "Disable NetBIOS over TCP/IP."])
 @@ (143 :> [severity |-> "Medium", title |-> "IMAP Plaintext Risk",
             description |-> "IMAP sends credentials in cleartext.",
             remediation |-> "Use IMAPS (port 993) with TLS."])
 @@ (443 :> [severity |-> "Low", title |-> "HTTPS Service",
             description |-> "Encrypted, but check TLS version.",
             remediation |-> "Ensure TLS 1.2+ and valid certificates."])
 @@ (445 :> [severity |-> "High", title |-> "SMB Service Exposed",
             description |-> "SMB is frequently targeted (EternalBlue).",
             remediation |-> "Block port 445 externally; patch SMB."])
 @@ (1433 :> [severity |-> "High", title |-> "MSSQL Exposed",
              description |-> "Database should not be public.",
              remediation |-> "Restrict to trusted IPs; use VPN."])
 @@ (1521 :> [severity |-> "High", title |-> "Oracle DB Exposed",
              description |-> "Oracle DB should not be public.",
              remediation |-> "Restrict to trusted IPs; use VPN."])
 @@ (3306 :> [severity |-> "High", title |-> "MySQL Database Exposed",
              description |-> "MySQL should not be on the public internet.",
              remediation |-> "Restrict to trusted IPs; use VPN."])
 @@ (3389 :> [severity |-> "High", title |-> "RDP Service Exposed",
              description |-> "RDP is a major ransomware vector.",
              remediation |-> "Use VPN; enable NLA; limit access."])
 @@ (5432 :> [severity |-> "High", title |-> "PostgreSQL Exposed",
              description |-> "Database should not be public.",
              remediation |-> "Restrict to trusted IPs; use VPN."])
 @@ (5900 :> [severity |-> "High", title |-> "VNC Service Exposed",
              description |-> "VNC may have weak or no authentication.",
              remediation |-> "Use SSH tunnel; enforce strong auth."])
 @@ (6379 :> [severity |-> "Critical", title |-> "Redis No Auth",
              description |-> "Redis often runs without authentication.",
              remediation |-> "Enable AUTH; bind to localhost only."])
 @@ (8080 :> [severity |-> "Low", title |-> "HTTP Proxy/Alt Service",
              description |-> "Alternative HTTP service detected.",
              remediation |-> "Ensure proper access controls."])
 @@ (8443 :> [severity |-> "Low", title |-> "HTTPS Alt Service",
              description |-> "Alternative HTTPS service detected.",
              remediation |-> "Verify TLS configuration."])
 @@ (27017 :> [severity |-> "Critical", title |-> "MongoDB No Auth",
               description |-> "MongoDB may lack authentication.",
               remediation |-> "Enable auth; restrict via firewall."])

SEVERITY_SCORES ==
    [s \in {"Critical", "High", "Medium", "Low"} |->
        CASE s = "Critical" -> 40
          [] s = "High" -> 25
          [] s = "Medium" -> 15
          [] s = "Low" -> 5]

\* mutant: no insight for a port outside the table
analyzePortKnownOnly(port, banner) ==
    IF port \in DOMAIN VULN_DB
    THEN <<[port |-> port, riskLevel |-> VULN_DB[port].severity,
            title |-> <<VULN_DB[port].title>>,
            shortDesc |-> VULN_DB[port].description]>>
    ELSE <<>>

\* mutant: only the High and Critical entries of the table count as known
analyzePortSevereOnly(port, banner) ==
    IF port \in DOMAIN VULN_DB
         /\ VULN_DB[port].severity \in {"High", "Critical"}
    THEN <<[port |-> port, riskLevel |-> VULN_DB[port].severity,
            title |-> <<VULN_DB[port].title>>,
            shortDesc |-> VULN_DB[port].description]>>
    ELSE <<[port |-> port, riskLevel |-> "Low",
            title |-> <<"Unknown Service (Port ", port, ")">>,
            shortDesc |-> "Open port with unrecognized service."]>>

\* AIEngine.analyzePort: the value returned, <<>> standing for null; a title
\* is the sequence of the parts of its text
analyzePort(port, banner) ==
    IF port \in DOMAIN VULN_DB
    THEN <<[port |-> port, riskLevel |-> VULN_DB[port].severity,
            title |-> <<VULN_DB[port].title>>,
            shortDesc |-> VULN_DB[port].description]>>
    ELSE <<[port |-> port, riskLevel |-> "Low",
            title |-> <<"Unknown Service (Port ", port, ")">>,
            shortDesc |-> "Open port with unrecognized service."]>>

\* the score a severity adds
ScoreOf(severity) ==
    IF severity \in DOMAIN SEVERITY_SCORES
    THEN SEVERITY_SCORES[severity]
    ELSE DEFAULT_SCORE

\* mutant: a port outside the table adds the default score
RECURSIVE VulnLoopCountsUnknown(_, _)
VulnLoopCountsUnknown(ps, k) ==
    IF k = 0
    THEN [vulns |-> <<>>, score |-> 0]
    ELSE LET acc == VulnLoopCountsUnknown(ps, k - 1)
             p == ps[k]
         IN  IF p.port \in DOMAIN VULN_DB
             THEN [vulns |-> Append(acc.vulns,
                       [severity |-> VULN_DB[p.port].severity,
                        title |-> VULN_DB[p.port].title,
                        description |-> VULN_DB[p.port].description,
                        remediation |-> VULN_DB[p.port].remediation,
                        port |-> p.port]),
                   score |-> acc.score + ScoreOf(VULN_DB[p.port].severity)]
             ELSE [acc EXCEPT !.score = @ + DEFAULT_SCORE]

\* mutant: the loop ends at the first port outside the table
RECURSIVE VulnLoopStopsAtUnknown(_, _)
VulnLoopStopsAtUnknown(ps, k) ==
    IF k = 0
    THEN [vulns |-> <<>>, score |-> 0]
    ELSE LET acc == VulnLoopStopsAtUnknown(ps, k - 1)
             p == ps[k]
         IN  IF \A j \in 1..k : ps[j].port \in DOMAIN VULN_DB
             THEN [vulns |-> Append(acc.vulns,
                       [severity |-> VULN_DB[p.port].severity,
                        title |-> VULN_DB[p.port].title,
                        description |-> VULN_DB[p.port].description,
                        remediation |-> VULN_DB[p.port].remediation,
                        port |-> p.port]),
                   score |-> acc.score + ScoreOf(VULN_DB[p.port].severity)]
             ELSE acc

\* AIEngine.analyze: vulns and score after the first k entries of the loop
RECURSIVE VulnLoop(_, _)
VulnLoop(ps, k) ==
    IF k = 0
    THEN [vulns |-> <<>>, score |-> 0]
    ELSE LET acc == VulnLoop(ps, k - 1)
             p == ps[k]
         IN  IF p.port \in DOMAIN VULN_DB
             THEN [vulns |-> Append(acc.vulns,
                       [severity |-> VULN_DB[p.port].severity,
                        title |-> VULN_DB[p.port].title,
                        description |-> VULN_DB[p.port].description,
                        remediation |-> VULN_DB[p.port].remediation,
                        port |-> p.port]),
                   score |-> acc.score + ScoreOf(VULN_DB[p.port].severity)]
             ELSE acc

\* mutant: the thresholds belong to the more severe side
ToneInclusive(finalScore) ==
    IF finalScore >= CRITICAL_ABOVE
    THEN "CRITICAL: Immediate remediation required."
    ELSE IF finalScore >= WARNING_ABOVE
    THEN "WARNING: Moderate security risks found."
    ELSE IF finalScore > 0
    THEN "Low risk - continue monitoring."
    ELSE "No known vulnerabilities detected."

\* AIEngine.analyze: the sentence that ends the summary (the long dash of
\* the third sentence is written as a hyphen)
Tone(finalScore) ==
    IF finalScore > CRITICAL_ABOVE
    THEN "CRITICAL: Immediate remediation required."
    ELSE IF finalScore > WARNING_ABOVE
    THEN "WARNING: Moderate security risks found."
    ELSE IF finalScore > 0
    THEN "Low risk - continue monitoring."
    ELSE "No known vulnerabilities detected."

\* the summary text, as the sequence of its parts
SummaryText(finalScore, count) ==
    <<"Scan complete. Risk score: ", finalScore, "/100. ", count,
      " open port(s) detected. ", Tone(finalScore)>>

\* mutant: the score is not capped
analyzeUncapped(ps) ==
    LET acc == VulnLoop(ps, Len(ps))
        finalScore == acc.score
    IN  [riskScore |-> finalScore, vulnerabilities |-> acc.vulns,
         summary |-> SummaryText(finalScore, Len(ps))]

\* mutant: the score goes on from the score of the report before
analyzeAccumulating(ps) ==
    LET acc == VulnLoop(ps, Len(ps))
        base == IF report = <<>> THEN 0 ELSE report[1].out.riskScore
        finalScore == Min(SCORE_CAP, base + acc.score)
    IN  [riskScore |-> finalScore, vulnerabilities |-> acc.vulns,
         summary |-> SummaryText(finalScore, Len(ps))]

\* AIEngine.analyze: the SecurityReport returned
analyze(ps) ==
    LET acc == VulnLoop(ps, Len(ps))
        finalScore == Min(SCORE_CAP, acc.score)
    IN  [riskScore |-> finalScore, vulnerabilities |-> acc.vulns,
         summary |-> SummaryText(finalScore, Len(ps))]

\* a call of analyzePort by a holder of an open port
AnalyzePort(port, banner) ==
    /\ insight' = <<[port |-> port, banner |-> banner,
                     out |-> analyzePort(port, banner)]>>
    /\ UNCHANGED <<started, entry, scanId, ports, concurrency, timeout,
                   aborted, index, scanned, results, probes, activeScans,
                   trace, thrown, invalidTarget, startReturn, peer, holder,
                   conn, report, previous>>

\* a call of analyze; the caller keeps the report it held before, or not.
\* analyze only reads its argument
Analyze(ps, keep) ==
    /\ report' = <<[input |-> ps, out |-> analyze(ps), inputAfter |-> ps]>>
    /\ previous' = IF keep THEN report ELSE previous
    /\ UNCHANGED <<started, entry, scanId, ports, concurrency, timeout,
                   aborted, index, scanned, results, probes, activeScans,
                   trace, thrown, invalidTarget, startReturn, peer, holder,
                   conn, insight>>

\* an open port as analyze receives it; the banner is <<>> when absent
OpenPort(p) == [port |-> p, banner |-> <<>>]
Greeting == <<"SSH-2.0-OpenSSH">>

\* ports outside the table, next to its keys and at the ends of the range
UnknownPorts == {0, 1, 20, 24, 79, 81, 442, 444, 8081, 9999, 27016, 65535}
ClassifyPorts == DOMAIN VULN_DB \cup UnknownPorts
Banners == {<<>>, <<"">>, Greeting}

\* analyzePort for every port of the table and the ports around it
ClassifyNext == \E p \in ClassifyPorts, b \in Banners : AnalyzePort(p, b)

ClassifySpec == Init /\ [][ClassifyNext]_vars

\* open ports of every severity, one outside the table, one with a banner
OpenEntries ==
    {OpenPort(p) : p \in {9999, 22, 21, 23, 6379}}
        \cup {[port |-> 22, banner |-> Greeting]}
OpenLists == UNION {[1..n -> OpenEntries] : n \in 0..MaxOpen}

\* analyze for every list of open ports, repeats included
AnalyzeNext == \E ps \in OpenLists : Analyze(ps, FALSE)

AnalyzeSpec == Init /\ [][AnalyzeNext]_vars

\* analyze for the lists of up to two open ports and analyzePort for the
\* same ports, with and without a banner, in any order
AgreeLists == UNION {[1..n -> OpenEntries] : n \in 0..2}

AgreeNext ==
    \/ \E ps \in AgreeLists : Analyze(ps, FALSE)
    \/ \E e \in OpenEntries, b \in Banners : AnalyzePort(e.port, b)

AgreeSpec == Init /\ [][AgreeNext]_vars

\* analyze for the lists of up to two open ports and for the orders of
\* three of them, the caller keeping any earlier report
ThreeOpen == {OpenPort(6379), OpenPort(23), OpenPort(9999)}
PermLists ==
    AgreeLists
        \cup {ps \in [1..3 -> ThreeOpen] :
                 \A j, k \in 1..3 : j # k => ps[j] # ps[k]}

PermNext == \E ps \in PermLists, keep \in BOOLEAN : Analyze(ps, keep)

PermSpec == Init /\ [][PermNext]_vars

\* a few lists analysed again and again, the caller keeping any earlier
\* report, with analyzePort calls in between
RepeatLists ==
    {<<>>, <<OpenPort(22)>>, <<OpenPort(9999)>>,
     <<OpenPort(6379), OpenPort(23)>>, <<OpenPort(23), OpenPort(6379)>>,
     <<OpenPort(6379), OpenPort(6379), OpenPort(23)>>}

RepeatNext ==
    \/ \E ps \in RepeatLists, keep \in BOOLEAN : Analyze(ps, keep)
    \/ \E p \in {22, 9999} : AnalyzePort(p, <<>>)

RepeatSpec == Init /\ [][RepeatNext]_vars

\* ------------------------------------------------------ observations
\* the callbacks of one kind invoked so far
Calls(cb) == SelectSeq(trace, LAMBDA e : e.cb = cb)

NComplete == Len(Calls("onComplete"))

\* the signal was aborted before runScan was called
PreAborted == aborted /\ Calls("abort") = <<>>

\* position k of the trace follows a cancellation
AfterAbort(k) ==
    PreAborted \/ \E j \in 1..(k - 1) : trace[j].cb = "abort"

PortsOf(rs) == {rs[k].port : k \in DOMAIN rs}

\* the arguments of a sequence of invocations
ArgsOf(calls) == [k \in DOMAIN calls |-> calls[k].arg]

\* the service scan under id has neither completed nor been aborted
Live(id) ==
    /\ started
    /\ entry = "service"
    /\ scanId = id
    /\ ~aborted
    /\ NComplete = 0

\* ---------------------------------------------------------------- C1
\* C1: a scan's onComplete is never invoked a second time, whether the scan
\* completes by itself, is aborted at any point, or has an empty port list
\* (stated for the scans started through ScannerService.startScan).
C1_OnCompleteAtMostOnce == entry = "service" => NComplete <= 1

\* ---------------------------------------------------------------- C2
\* C2: once a scan is cancelled and every probe launched before the
\* cancellation has settled, onComplete has been invoked, with the results
\* accepted before the cancellation.
C2_AbortDrainsToComplete ==
    (started /\ aborted /\ InFlight(Sched) = {}) =>
        /\ NComplete >= 1
        /\ Calls("onComplete")[NComplete].arg = results

\* ---------------------------------------------------------------- C3
\* C3: the collection a never-aborted scan hands to onComplete has
\* ports.length entries, one for each requested port and none twice.
C3_Completeness ==
    \A k \in DOMAIN trace :
        (trace[k].cb = "onComplete" /\ ~AfterAbort(k)) =>
            /\ Len(trace[k].arg) = Len(ports)
            /\ PortsOf(trace[k].arg) = PortsOf([i \in DOMAIN ports |->
                                                   [port |-> ports[i]]])
            /\ Cardinality(PortsOf(trace[k].arg)) = Len(trace[k].arg)

\* a scan of several ports that was never aborted has completed
C3_Witness ==
    /\ Len(ports) >= 2
    /\ ~aborted
    /\ NComplete = 1
    /\ \E i, j \in DOMAIN results :
          i < j /\ results[i].port > results[j].port

\* ---------------------------------------------------------------- C4
\* C4: every launched probe eventually settles, and a scan that is not
\* aborted eventually invokes onComplete, whatever the outcomes and the
\* order in which the probes settle.
C4_NoSilentHang ==
    <>[](/\ InFlight(Sched) = {}
         /\ started => (aborted \/ NComplete >= 1))

\* a scan with more ports than window slots has completed without an abort
C4_Witness ==
    /\ Len(ports) > concurrency
    /\ ~aborted
    /\ NComplete = 1
    /\ \A i \in DOMAIN probes : probes[i].resolved

\* ---------------------------------------------------------------- C5
\* C5: once a caller-supplied callback has thrown, the scan's registry entry
\* is cleared and onComplete has been invoked with an empty collection.
C5_ThrowIsCaught ==
    (entry = "service" /\ thrown) =>
        /\ ~isActive(scanId)
        /\ NComplete >= 1
        /\ Calls("onComplete")[NComplete].arg = <<>>

\* ---------------------------------------------------------------- C6
\* C6: a probe whose connection succeeded settles open, with a banner if
\* and only if data arrived in the banner window, for every timeout value
\* and whatever event follows the connect.
C6_ConnectedSettlesOpen ==
    \A i \in DOMAIN probes :
        (probes[i].resolved /\ probes[i].bannerTimer # "none") =>
            /\ probes[i].value[1].status = "open"
            /\ probes[i].value[1].banner > 0
                  <=> probes[i].bannerTimer = "cleared"

\* ---------------------------------------------------------------- C7
\* C7: a probe whose connection attempt fails is resolved with a PortResult
\* without banner: closed after a refusal or a reset, filtered after a
\* connect timeout or any other error.
C7_FailureMapping ==
    [][\A i \in DOMAIN probes :
          (probes[i].sock = "connecting" /\ probes'[i].resolved) =>
              /\ Len(probes'[i].value) = 1
              /\ probes'[i].value[1].port = ports[i]
              /\ probes'[i].value[1].banner = 0
              /\ (\E code \in {"ECONNREFUSED", "ECONNRESET"},
                     how \in WellBehaved : SocketError(i, code, how))
                    => probes'[i].value[1].status = "closed"
              /\ (\/ \E how \in WellBehaved : SocketTimeout(i, how)
                  \/ \E code \in ErrorCodes \ {"ECONNREFUSED", "ECONNRESET"},
                        how \in WellBehaved : SocketError(i, code, how))
                    => probes'[i].value[1].status = "filtered"]_vars

\* a connection attempt failed and its probe settled closed, under a
\* timeout longer than the banner window
C7_Witness ==
    \E i \in DOMAIN probes :
        /\ probes[i].resolved
        /\ probes[i].bannerTimer = "none"
        /\ probes[i].value[1].status = "closed"
        /\ timeout > BANNER_WINDOW

\* ---------------------------------------------------------------- C8
\* C8: the probes in flight never outnumber the effective concurrency,
\* before and after a cancellation.
C8_WindowBound == started => Cardinality(InFlight(Sched)) <= concurrency

\* the window is full while ports wait, after a cancellation
C8_Witness ==
    /\ aborted
    /\ Cardinality(InFlight(Sched)) = concurrency
    /\ index < Len(ports)

\* ---------------------------------------------------------------- C9
\* C9: no step that ends with the signal aborted launches a probe: the
\* launch cursor does not advance once the token is signalled.
C9_NoLaunchAfterAbort ==
    [][aborted' => (index' = index /\ Len(probes') = Len(probes))]_vars

\* an aborted scan has drained while ports were never launched
C9_Witness ==
    /\ aborted
    /\ index >= 1
    /\ index < Len(ports)
    /\ scanned = index

\* --------------------------------------------------------------- C10
\* C10 as claimed: no onResult and no onProgress follows the abort.
C10_NoCallbackAfterAbort ==
    \A k \in DOMAIN trace :
        AfterAbort(k) => trace[k].cb \notin {"onResult", "onProgress"}

\* C10 amended: an abort issued between two tasks settles no probe; a probe
\* that settles after the abort adds no result and triggers neither
\* onResult nor onProgress; no onResult follows an abort, and an onProgress
\* follows one only in the handler run whose onResult issued the abort.
C10_PostAbortDiscarded ==
    [][/\ aborted => /\ results' = results
                     /\ Calls("onResult")' = Calls("onResult")
                     /\ Calls("onProgress")' = Calls("onProgress")
       /\ (started /\ ~aborted /\ aborted' /\ scanned' = scanned)
             => probes' = probes
       /\ \A k \in DOMAIN trace' :
             (AfterAbort(k))' =>
                 /\ trace'[k].cb # "onResult"
                 /\ trace'[k].cb = "onProgress" =>
                       /\ k >= 3
                       /\ trace'[k - 1].cb = "abort"
                       /\ trace'[k - 2].cb = "onResult"]_vars

\* a probe settled after the abort and its result was dropped, while
\* another probe is still in flight
C10_Witness ==
    /\ aborted
    /\ scanned > Len(results)
    /\ InFlight(Sched) # {}

\* --------------------------------------------------------------- C11
\* C11: a call of abortScan(id) that returns true leaves isActive(id)
\* false at once, with the probes of the scan still in flight; every
\* callback invoked after the abort finds the id inactive; and the id
\* becomes active again only by a startScan under that id.
C11_AbortClearsActive ==
    /\ [](\A k \in DOMAIN trace :
             (entry = "service" /\ AfterAbort(k)) => scanId \notin trace[k].reg)
    /\ [][\A id \in AbortIds :
             /\ (abortScan(Sched, id).ret /\ AbortScan(id)) =>
                    /\ ~isActive(id)'
                    /\ probes' = probes
             /\ (~isActive(id) /\ isActive(id)') =>
                    (~started /\ started' /\ entry' = "service"
                        /\ scanId' = id)]_vars

\* a scan was aborted after its first result and is inactive while a probe
\* is still in flight
C11_Witness ==
    /\ entry = "service"
    /\ aborted
    /\ ~isActive(scanId)
    /\ results # <<>>
    /\ InFlight(Sched) # {}

\* --------------------------------------------------------------- C12
\* C12: abortScan(id) returns true exactly when a scan started under id
\* has neither completed nor been aborted; a call that returns false
\* changes nothing; after a call that returns true the token is signalled
\* and the entry gone, and a second call returns false and changes nothing.
C12_AbortScanReturn ==
    \A id \in AbortIds :
        LET r == abortScan(Sched, id)
            again == abortScan(r.state, id)
        IN  /\ r.ret <=> Live(id)
            /\ ~r.ret => r.state = Sched
            /\ r.ret => (r.state.aborted /\ id \notin r.state.activeScans)
            /\ ~again.ret
            /\ again.state = r.state

\* a running scan with a probe in flight, for which abortScan returns true
C12_Witness ==
    /\ abortScan(Sched, scanId).ret
    /\ results # <<>>
    /\ InFlight(Sched) # {}

\* --------------------------------------------------------------- C13
\* C13: a service scan over a non-empty port list is in the registry
\* exactly as long as it has neither completed nor been aborted; an entry
\* that was removed does not come back; and every onComplete of the scan
\* finds the entry already removed.
C13_RegistryLifetime ==
    /\ []((started /\ entry = "service" /\ ports # <<>>) =>
             /\ isActive(scanId) <=> (~aborted /\ NComplete = 0)
             /\ \A k \in DOMAIN trace :
                   trace[k].cb = "onComplete" => scanId \notin trace[k].reg)
    /\ [][(started /\ ~isActive(scanId)) => ~isActive(scanId)']_vars

\* a scan of several ports has completed by itself and left the registry
C13_Witness ==
    /\ entry = "service"
    /\ ~aborted
    /\ Len(ports) >= 2
    /\ Len(results) = Len(ports)
    /\ NComplete = 1
    /\ ~isActive(scanId)

\* --------------------------------------------------------------- C14
\* C14: no onResult and no onProgress is invoked after an onComplete.
C14_NothingAfterComplete ==
    \A k, j \in DOMAIN trace :
        (k < j /\ trace[k].cb = "onComplete") =>
            trace[j].cb \notin {"onResult", "onProgress"}

\* onComplete was invoked while a probe was in flight, and the probe has
\* settled since
C14_Witness ==
    /\ \E k \in DOMAIN trace : trace[k].cb = "onComplete" /\ k < Len(trace)
    /\ scanned > Len(results)
    /\ InFlight(Sched) = {}

\* --------------------------------------------------------------- C15
\* the sample targets that fail validation
InvalidSamples ==
    {target \in SampleTargets : ~validateTarget(sanitizeTarget(target))}

\* C15: a startScan whose target fails validation throws and changes
\* neither the registry nor the scan state nor the callbacks invoked; as
\* long as no startScan has passed validation nothing is registered,
\* launched or invoked.
C15_InvalidTargetNoScan ==
    /\ [](~started => (activeScans = {} /\ probes = <<>> /\ trace = <<>>))
    /\ [][\A id \in AbortIds, target \in InvalidSamples :
             StartScan(id, target, <<>>, 1, BANNER_WINDOW, Quiet) =>
                 /\ id \in invalidTarget'
                 /\ UNCHANGED <<started, entry, scanId, ports, aborted, index,
                                scanned, results, probes, activeScans,
                                trace>>]_vars

\* startScan was refused under an id while the scan of another id runs on
C15_Witness ==
    /\ \E id \in invalidTarget : id # scanId /\ ~isActive(id)
    /\ isActive(scanId)
    /\ InFlight(Sched) # {}

\* --------------------------------------------------------------- C16
\* C16: startScan hands the scheduler the concurrency max(10, min(c, 500))
\* and the timeout min(t, 400) for more than 500 ports, min(t, 800)
\* otherwise, for every requested c and t.
C16_Clamping ==
    [][\A id \in ScanIds, rq \in ClampRequests :
          LET ps == rq[1]
              c == rq[2]
              t == rq[3]
          IN  StartScan(id, LocalTarget, ps, c, t, Quiet) =>
                  /\ concurrency' = Max(10, Min(c, 500))
                  /\ timeout' = IF Len(ps) > 500 THEN Min(t, 400)
                                 ELSE Min(t, 800)]_vars

\* a large scan whose concurrency was raised and whose timeout was cut
C16_Witness ==
    /\ started
    /\ Len(ports) > LARGE_SCAN
    /\ concurrency = MIN_CONCURRENCY
    /\ timeout = LARGE_TIMEOUT

\* --------------------------------------------------------------- C17
\* C17: a scan over an empty port list launches no probe, invokes neither
\* onResult nor onProgress, and invokes onComplete with an empty collection.
C17_EmptyList ==
    (started /\ ports = <<>>) =>
        /\ probes = <<>>
        /\ Calls("onResult") = <<>>
        /\ Calls("onProgress") = <<>>
        /\ NComplete = 1
        /\ Calls("onComplete")[1].arg = <<>>

\* runScan was called with an empty port list and an aborted signal
C17_Witness ==
    /\ started
    /\ ports = <<>>
    /\ entry = "direct"
    /\ PreAborted

\* --------------------------------------------------------------- C18
\* C18: the collection handed to onComplete is the sequence of the results
\* handed to onResult before it, in that order and without a port twice; a
\* probe that settles before the cancellation adds its result, a probe that
\* settles after it adds none.
C18_CompleteCarriesDelivered ==
    /\ [](/\ results = ArgsOf(Calls("onResult"))
          /\ Cardinality(PortsOf(results)) = Len(results)
          /\ \A k \in DOMAIN trace :
                trace[k].cb = "onComplete" =>
                    trace[k].arg =
                        ArgsOf(SelectSeq(SubSeq(trace, 1, k - 1),
                                         LAMBDA e : e.cb = "onResult")))
    /\ [][\A i \in DOMAIN probes :
             (~probes[i].resolved /\ probes'[i].resolved) =>
                 IF aborted THEN results' = results
                 ELSE results' = Append(results, probes'[i].value[1])]_vars

\* an aborted scan has handed onComplete the one result accepted before
\* the abort, after another probe was dropped
C18_Witness ==
    /\ aborted
    /\ NComplete >= 1
    /\ Len(results) >= 1
    /\ scanned > Len(results)
    /\ Calls("onComplete")[1].arg = results

\* --------------------------------------------------------------- C19
\* C19: in the successive onProgress emissions scanned never decreases and
\* never exceeds total, and total is always ports.length.
C19_ProgressMonotone ==
    LET P == Calls("onProgress")
    IN  \A k \in DOMAIN P :
            /\ P[k].arg[1] <= P[k].arg[2]
            /\ P[k].arg[2] = Len(ports)
            /\ \A j \in 1..(k - 1) : P[j].arg[1] <= P[k].arg[1]

\* progress was emitted twice
C19_Witness == Len(Calls("onProgress")) >= 2

\* --------------------------------------------------------------- C20
\* C20: in a scan over a non-empty port list, an onComplete that no abort
\* precedes directly follows onProgress(total, total), which directly
\* follows the last onResult.
C20_FinalProgress ==
    \A k \in DOMAIN trace :
        (trace[k].cb = "onComplete" /\ ~AfterAbort(k) /\ ports # <<>>) =>
            /\ k >= 3
            /\ trace[k - 1].cb = "onProgress"
            /\ trace[k - 1].arg = <<Len(ports), Len(ports)>>
            /\ trace[k - 2].cb = "onResult"
            /\ Len(Calls("onResult")) = Len(ports)

\* a scan of several ports completed with the final emission as its only
\* progress: the throttle held the earlier ones back
C20_Witness ==
    /\ ~aborted
    /\ NComplete = 1
    /\ Len(ports) >= 2
    /\ Len(Calls("onProgress")) = 1

\* --------------------------------------------------------------- C21
\* the first scan's own state
own == <<aborted, index, scanned, results, probes, trace>>

\* the onComplete calls of the second scan
PeerCompletes == SelectSeq(peer.trace, LAMBDA e : e.cb = "onComplete")

\* C21: a step of one scan (its start, a settled probe, its abort, its
\* completion) changes neither the other scan's state nor the other scan's
\* registry entry; each scan is in the registry as long as it has neither
\* completed nor been aborted itself, and a scan that was not aborted
\* completes with one result for each of its ports.
C21_ScansIndependent ==
    /\ [](/\ (started /\ entry = "service") =>
                (isActive(scanId) <=> (~aborted /\ NComplete = 0))
          /\ peer.started =>
                (isActive(PeerId) <=> (~peer.aborted /\ PeerCompletes = <<>>))
          /\ (~aborted /\ NComplete >= 1) =>
                PortsOf(results) = {ports[k] : k \in DOMAIN ports}
          /\ (~peer.aborted /\ PeerCompletes # <<>>) =>
                /\ PortsOf(peer.results)
                      = {peer.ports[k] : k \in DOMAIN peer.ports}
                /\ Len(peer.results) = Len(peer.ports))
    /\ [][/\ peer' # peer =>
                /\ UNCHANGED <<own, started>>
                /\ isActive(scanId)' <=> isActive(scanId)
          /\ (own' # own \/ started' # started) =>
                /\ peer' = peer
                /\ isActive(PeerId)' <=> isActive(PeerId)]_vars

\* the second scan was aborted with a probe in flight; the first is
\* active, has delivered a result and has a probe in flight
C21_Witness ==
    /\ peer.aborted
    /\ \E i \in DOMAIN peer.probes : ~peer.probes[i].resolved
    /\ entry = "service"
    /\ isActive(scanId)
    /\ ~aborted
    /\ results # <<>>
    /\ InFlight(Sched) # {}

\* --------------------------------------------------------------- C22
\* the steps C22 names, in its order
ClaimedSteps(t) == FirstField(FirstField(StripProtocol(t), "/"), ":")

\* t without the blanks around it
Unpadded(t) ==
    LET inked == {k \in DOMAIN t : t[k] \notin WhiteSpace}
    IN  IF inked = {} THEN <<>>
        ELSE SubSeq(t, CHOOSE a \in inked : \A k \in inked : a <= k,
                       CHOOSE b \in inked : \A k \in inked : b >= k)

\* the outcomes C22 lists, and the one of a scheme in upper case
ListedOutcomes(c) ==
    /\ c.input = UrlWithPortAndPath => (~c.threw /\ c.target = BareAddress)
    /\ c.input = UrlWithSlash => (~c.threw /\ c.target = BareName)
    /\ c.input = <<>> => c.threw
    /\ c.input = OfLength(300) => c.threw
    /\ c.input = UpperCaseUrl =>
          (~c.threw /\ c.target = <<"E", "x", "a", "m", "p", "l", "e", ".",
                                     "c", "o", "m">>)

\* C22 as claimed: a startScan call returns what the three steps leave of
\* its input, and throws when that is not a valid target.
C22_NormalizeAsClaimed ==
    \A k \in DOMAIN startReturn :
        LET c == startReturn[k]
            h == ClaimedSteps(c.input)
        IN  /\ ListedOutcomes(c)
            /\ c.threw <=> ~validateTarget(h)
            /\ ~c.threw => c.target = h

\* C22 amended: the blanks around the input are removed first; the three
\* steps are applied to what remains.
C22_NormalizeTrims ==
    \A k \in DOMAIN startReturn :
        LET c == startReturn[k]
            h == ClaimedSteps(Unpadded(c.input))
        IN  /\ ListedOutcomes(c)
            /\ c.threw <=> ~validateTarget(h)
            /\ ~c.threw => c.target = h

\* a URL with a blank before it was accepted and its host returned
C22_Witness ==
    /\ startReturn # <<>>
    /\ startReturn[1].input = PaddedUrl
    /\ ~startReturn[1].threw
    /\ startReturn[1].target = LocalTarget

\* --------------------------------------------------------------- C23
\* h consists of the characters of set, split by single dots into non-empty
\* groups of at most n characters
DottedGroups(h, set, n) ==
    /\ h # <<>>
    /\ \A k \in DOMAIN h : h[k] \in set \cup {"."}
    /\ h[1] # "."
    /\ h[Len(h)] # "."
    /\ \A k \in 1..(Len(h) - 1) : ~(h[k] = "." /\ h[k + 1] = ".")
    /\ \A k \in 1..(Len(h) - n) : \E j \in k..(k + n) : h[j] = "."

\* four groups of one to three digits
ClaimedAddress(h) ==
    /\ DottedGroups(h, Digits, 3)
    /\ Cardinality({k \in DOMAIN h : h[k] = "."}) = 3

\* labels of 1-63 alphanumerics and hyphens, no hyphen first or last
ClaimedName(h) ==
    /\ DottedGroups(h, AlphaNum \cup {"-"}, 63)
    /\ h[1] # "-"
    /\ h[Len(h)] # "-"
    /\ \A k \in 1..(Len(h) - 1) :
          /\ ~(h[k] = "-" /\ h[k + 1] = ".")
          /\ ~(h[k] = "." /\ h[k + 1] = "-")

\* C23: startScan accepts its input exactly when the sanitized target is
\* non-empty, at most 255 characters long, and an address of four groups
\* of 1-3 digits or a name of dot-separated labels.
C23_AcceptedTargets ==
    \A k \in DOMAIN startReturn :
        LET c == startReturn[k]
            h == sanitizeTarget(c.input)
        IN  ~c.threw <=> /\ Len(h) >= 1
                         /\ Len(h) <= 255
                         /\ ClaimedAddress(h) \/ ClaimedName(h)

\* an address whose groups are no octets was accepted
C23_Witness ==
    /\ startReturn # <<>>
    /\ startReturn[1].input = WideOctets
    /\ ~startReturn[1].threw

ClaimedWeight(severity) ==
    CASE severity = "Critical" -> 40
      [] severity = "High" -> 25
      [] severity = "Medium" -> 15
      [] severity = "Low" -> 5

\* the claimed sum: the weights of the entries whose port is in the table
RECURSIVE ClaimedSum(_)
ClaimedSum(ps) ==
    IF ps = <<>>
    THEN 0
    ELSE (IF Head(ps).port \in DOMAIN VULN_DB
          THEN ClaimedWeight(VULN_DB[Head(ps).port].severity)
          ELSE 0) + ClaimedSum(Tail(ps))

\* C25: the riskScore of a report is the smaller of 100 and the sum of the
\* severity weights (Critical 40, High 25, Medium 15, Low 5) of the input
\* entries whose port is in the table, so it lies between 0 and 100.
C25_RiskScore ==
    report # <<>> =>
        /\ report[1].out.riskScore = Min(100, ClaimedSum(report[1].input))
        /\ report[1].out.riskScore >= 0
        /\ report[1].out.riskScore <= 100

\* a report whose weights add up to more than 100
C25_Witness ==
    /\ report # <<>>
    /\ ClaimedSum(report[1].input) > 100
    /\ report[1].out.riskScore = 100

ToneOf(r) == r.out.summary[Len(r.out.summary)]

\* C27: the sentence that ends the summary is chosen by riskScore alone:
\* the urgent one iff the score is above 70, the warning iff it is above 40
\* and at most 70, the low-risk one iff it is above 0 and at most 40, the
\* no-known-vulnerability one iff it is 0.
C27_ToneByScore ==
    report # <<>> =>
        LET s == report[1].out.riskScore
            tone == ToneOf(report[1])
        IN  /\ (tone = "CRITICAL: Immediate remediation required.")
                  <=> s > 70
            /\ (tone = "WARNING: Moderate security risks found.")
                  <=> (40 < s /\ s <= 70)
            /\ (tone = "Low risk - continue monitoring.")
                  <=> (0 < s /\ s <= 40)
            /\ (tone = "No known vulnerabilities detected.") <=> s = 0

\* a report with a score of exactly 70, which is a warning
C27_Witness ==
    /\ report # <<>>
    /\ report[1].out.riskScore = 70
    /\ ToneOf(report[1]) = "WARNING: Moderate security risks found."

\* --------------------------------------------------------------- C28
\* the input entries whose port is in the table, in input order
KnownOf(ps) == SelectSeq(ps, LAMBDA e : e.port \in DOMAIN VULN_DB)

\* C28: the vulnerabilities of a report are one record for each input entry
\* whose port is in the table, in input order, each carrying its port and
\* the table's fields; the entries outside the table add no record and
\* nothing to riskScore.
C28_OnlyKnownPorts ==
    report # <<>> =>
        LET known == KnownOf(report[1].input)
            vulns == report[1].out.vulnerabilities
        IN  /\ Len(vulns) = Len(known)
            /\ \A k \in DOMAIN known :
                  /\ vulns[k].port = known[k].port
                  /\ vulns[k].severity = VULN_DB[known[k].port].severity
                  /\ vulns[k].title = VULN_DB[known[k].port].title
                  /\ vulns[k].description
                        = VULN_DB[known[k].port].description
                  /\ vulns[k].remediation
                        = VULN_DB[known[k].port].remediation
            /\ report[1].out.riskScore = Min(100, ClaimedSum(known))

\* a report for two ports of the table with a port outside it in between
C28_Witness ==
    /\ report # <<>>
    /\ Len(report[1].input) = 3
    /\ report[1].input[1].port \in DOMAIN VULN_DB
    /\ report[1].input[2].port \notin DOMAIN VULN_DB
    /\ report[1].input[3].port \in DOMAIN VULN_DB
    /\ report[1].input[1].port # report[1].input[3].port
    /\ Len(report[1].out.vulnerabilities) = 2

\* --------------------------------------------------------------- C29
\* C29: a probe is resolved exactly when its socket is destroyed and it
\* holds one PortResult; the event that settles it is handled once; an
\* event that reaches a settled probe changes neither its result nor its
\* socket, and triggers no handler.
C29_SettlesOnce ==
    /\ [](/\ \A i \in DOMAIN probes :
                /\ probes[i].resolved <=> probes[i].sock = "destroyed"
                /\ probes[i].resolved <=> Len(probes[i].value) = 1
          /\ scanned = Cardinality({i \in DOMAIN probes : probes[i].resolved}))
    /\ [][\A i \in DOMAIN probes :
             /\ (~probes[i].resolved /\ probes'[i].resolved) =>
                    scanned' = scanned + 1
             /\ probes[i].resolved =>
                    /\ probes'[i].resolved
                    /\ probes'[i].value = probes[i].value
                    /\ probes'[i].sock = probes[i].sock
                    /\ probes'[i] # probes[i] =>
                          UNCHANGED <<scanned, results, trace, index>>]_vars

\* the banner timer has fired on a probe that the idle timer or an error
\* had settled before
C29_Witness ==
    \E i \in DOMAIN probes :
        /\ probes[i].resolved
        /\ probes[i].bannerTimer = "fired"
        /\ probes[i].value[1].status # "open"

\* --------------------------------------------------------------- C30
\* C30: as long as the scan is not cancelled, the probes in flight number
\* min(concurrency, ports not yet settled): the window is full whenever
\* ports remain to be launched.
C30_WindowFull ==
    (started /\ ~aborted) =>
        /\ Cardinality(InFlight(Sched)) = Min(concurrency, Len(ports) - scanned)
        /\ index < Len(ports) => Cardinality(InFlight(Sched)) = concurrency

\* a result was handled and the freed slot of a window narrower than the
\* port list is taken again
C30_Witness ==
    /\ started
    /\ ~aborted
    /\ concurrency < Len(ports)
    /\ scanned >= 1
    /\ Cardinality(InFlight(Sched)) = concurrency

\* --------------------------------------------------------------- C31
\* a handler run in which the caller cancels from inside onResult or
\* onProgress: the run invokes a callback and the signal becomes aborted
CancelInCallbackStep ==
    /\ ~aborted
    /\ aborted'
    /\ Len(trace') > Len(trace)
    /\ trace'[Len(trace) + 1].cb \in {"onResult", "onProgress"}

\* C31: when the caller cancels the scan from inside its own onResult or
\* onProgress callback, onComplete is not invoked while probes launched
\* earlier are still in flight, and it is invoked no more than once.
C31_CallbackCancelCompletes ==
    /\ [][CancelInCallbackStep =>
             (NComplete' = NComplete \/ InFlight(Sched)' = {})]_vars
    /\ [](entry = "service" => NComplete <= 1)

\* --------------------------------------------------------------- C32
\* C32: runScan called with a non-empty port list and a signal that is
\* already aborted launches no probe, invokes neither onResult nor
\* onProgress, and invokes onComplete exactly once, with an empty
\* collection.
C32_PreAbortedScan ==
    (started /\ PreAborted /\ ports # <<>>) =>
        /\ probes = <<>>
        /\ Calls("onResult") = <<>>
        /\ Calls("onProgress") = <<>>
        /\ NComplete = 1
        /\ Calls("onComplete")[1].arg = <<>>

\* --------------------------------------------------------------- C33
\* the second scan has neither completed nor been aborted
LiveSecond == peer.started /\ ~peer.aborted /\ PeerCompletes = <<>>

\* C33: a scan that was started and has neither completed nor been aborted
\* is reported active under its id, and abortScan with its id cancels it,
\* also when another scan was started under the same id before or after it.
C33_LiveScanIsActive ==
    /\ [](/\ Live(scanId) => isActive(scanId)
          /\ LiveSecond => isActive(peer.scanId))
    /\ [][/\ (Live(scanId) /\ AbortScan(scanId)) => aborted'
          /\ (LiveSecond /\ AbortScan(peer.scanId)) => peer'.aborted]_vars

\* --------------------------------------------------------------- C34
\* the scans of the connection that the registry holds
ActiveOnConn == {id \in ConnScans : isActive(id)}

\* C34: a client connection has at most one active scan at any time,
\* however its start-scan requests interleave.
C34_OneScanPerConnection == Cardinality(ActiveOnConn) <= 1

\* --------------------------------------------------------------- C35
\* scan id invokes its onComplete callback in this step
CompletesIn(id) == conn'.completing[id] > conn.completing[id]

\* C35: every scan of the connection that is active in the registry is the
\* one currentScanId names, and the completion of another scan leaves
\* currentScanId naming it.
C35_CurrentScanTracked ==
    /\ [](\A id \in ConnScans : isActive(id) => conn.currentScanId = id)
    /\ [][\A id \in ConnScans :
             (/\ conn.currentScanId # NoId
              /\ conn.currentScanId # id
              /\ isActive(conn.currentScanId)
              /\ CompletesIn(id))
                => conn'.currentScanId = conn.currentScanId]_vars

\* --------------------------------------------------------------- C36
\* the events emitted for scan id, in order
EmittedFor(id) == SelectSeq(conn.emitted, LAMBDA e : e.scanId = id)

Terminal == {"scan:complete", "scan:aborted", "scan:error"}

\* C36: among the events emitted for one scan there is at most one of
\* scan:complete, scan:aborted and scan:error, and no port:found or
\* scan:progress follows it.
C36_OneTerminalEvent ==
    \A id \in ConnScans :
        \A j, k \in DOMAIN EmittedFor(id) :
            (j < k /\ EmittedFor(id)[j].event \in Terminal) =>
                EmittedFor(id)[k].event
                    \notin Terminal \cup {"port:found", "scan:progress"}

\* --------------------------------------------------------------- C37
\* C37: the target startScan returns is left as it is by a second
\* normalization, which accepts it, and it holds no scheme, no '/', no ':'
\* and no whitespace.
C37_NormalizeIdempotent ==
    (startReturn # <<>> /\ ~startReturn[1].threw) =>
        LET h == startReturn[1].target
        IN  /\ sanitizeTarget(h) = h
            /\ validateTarget(sanitizeTarget(h))
            /\ \A k \in DOMAIN h : h[k] \notin {"/", ":"} \cup WhiteSpace
            /\ ~StartsWithNoCase(h, <<"h", "t", "t", "p", ":", "/", "/">>)
            /\ ~StartsWithNoCase(h, <<"h", "t", "t", "p", "s", ":", "/",
                                      "/">>)

\* a URL whose host part is itself a URL is accepted as the host "https"
C37_Witness ==
    /\ startReturn # <<>>
    /\ startReturn[1].input = DoubleScheme
    /\ ~startReturn[1].threw
    /\ startReturn[1].target = <<"h", "t", "t", "p", "s">>

\* --------------------------------------------------------------- C38
\* the insight is the unknown-service one
UnknownInsight(i) == i.title[1] = "Unknown Service (Port "

Occurrences(seq) ==
    [x \in {seq[k] : k \in DOMAIN seq} |->
        Cardinality({k \in DOMAIN seq : seq[k] = x})]

\* C39: the reports of two inputs that hold the same open ports in a
\* different order have the same riskScore, the same closing sentence and
\* the same vulnerability records, each as often.
C39_OrderIndependent ==
    (report # <<>> /\ previous # <<>>
        /\ Occurrences(report[1].input) = Occurrences(previous[1].input)) =>
        /\ report[1].out.riskScore = previous[1].out.riskScore
        /\ ToneOf(report[1]) = ToneOf(previous[1])
        /\ Occurrences(report[1].out.vulnerabilities)
              = Occurrences(previous[1].out.vulnerabilities)

\* two reports for the same three ports in different orders, the port
\* outside the table first in one of them
C39_Witness ==
    /\ report # <<>>
    /\ previous # <<>>
    /\ Len(report[1].input) = 3
    /\ report[1].input # previous[1].input
    /\ Occurrences(report[1].input) = Occurrences(previous[1].input)
    /\ report[1].input[1].port = 9999
    /\ report[1].out.riskScore = 65

\* --------------------------------------------------------------- C40
\* the PortResults so far: those the probes resolved with and those runScan
\* accepted
PortResults ==
    {probes[i].value[1] : i \in {k \in DOMAIN probes : probes[k].resolved}}
        \cup {results[k] : k \in DOMAIN results}

\* C40: a closed or filtered PortResult has no banner, and a banner is
\* between 1 and 256 characters long (a banner of length 0 is none).
C40_BannerOnlyWhenOpen ==
    \A r \in PortResults :
        /\ r.status \in {"closed", "filtered"} => r.banner = 0
        /\ r.banner >= 0
        /\ r.banner <= 256

\* a service sent more than 256 bytes and the result holds 256 characters
C40_Witness ==
    \E r \in PortResults : r.status = "open" /\ r.banner = 256

====
